---- MODULE Spec2Model ----
(***************************************************************************)
(* Model of the crop enrichment logic of FarmDash16.py (process_crops) and *)
(* FarmDash9.py (process_and_sort_crops): the clock read by get_sast_now,  *)
(* date parsing and formatting, the stage walk, the countdown, the         *)
(* progress percentage (in IEEE double arithmetic, as Python computes it)  *)
(* and the dashboard ordering.                                             *)
(*                                                                         *)
(* Time has a resolution of one hour.  A naive datetime is a record        *)
(* [ord, hour]: the proleptic Gregorian ordinal of its date (as            *)
(* date.toordinal(): 0001-01-01 is day 1) and its hour of the day.  A      *)
(* timedelta is a record [days, hours] normalised as Python normalises     *)
(* it: 0 <= hours < 24, days of any sign.  A Python str is a sequence of   *)
(* one-character strings.                                                  *)
(***************************************************************************)
EXTENDS Integers, Sequences, FiniteSets, TLC

VARIABLES utc, data, pc, now, processed,
          coords, f, apc, calculated_area_m2,
          app, session_state, rpc, screen, pending, gate_saw, locked

\* the enrichment calls
cropVars == <<utc, data, pc, now, processed>>

\* the Field Mapper's area computation
areaVars == <<coords, f, apc, calculated_area_m2>>

\* the password gate: the script of one browser session, its session
\* state, the position of the script run, what the browser shows, the click
\* the run was started by; gate_saw and locked record history
gateVars == <<app, session_state, rpc, screen, pending, gate_saw, locked>>

vars == <<cropVars, areaVars, gateVars>>

otherThanCrop == <<areaVars, gateVars>>

otherThanArea == <<cropVars, gateVars>>

otherThanGate == <<cropVars, areaVars>>

(***************************************************************************)
(* Calendar arithmetic of datetime (CPython Lib/_pydatetime.py), which the *)
(* sources reach through strptime, strftime, + and -.                      *)
(***************************************************************************)
IsLeap(y) == (y % 4 = 0) /\ ((y % 100 # 0) \/ (y % 400 = 0))

DaysInMonth(y, m) ==
    IF m = 2 THEN (IF IsLeap(y) THEN 29 ELSE 28)
    ELSE IF m \in {4, 6, 9, 11} THEN 30 ELSE 31

RECURSIVE DaysBeforeMonth(_, _)
DaysBeforeMonth(y, m) ==
    IF m <= 1 THEN 0 ELSE DaysBeforeMonth(y, m - 1) + DaysInMonth(y, m - 1)

DaysBeforeYear(y) ==
    (y - 1) * 365 + ((y - 1) \div 4) - ((y - 1) \div 100) + ((y - 1) \div 400)

\* date(y, m, d).toordinal()
ToOrdinal(y, m, d) == DaysBeforeYear(y) + DaysBeforeMonth(y, m) + d

\* date.fromordinal(n) as [year, month, day]
FromOrdinal(n) ==
    LET n0   == n - 1
        n400 == n0 \div 146097
        r400 == n0 % 146097
        n100 == r400 \div 36524
        r100 == r400 % 36524
        n4   == r100 \div 1461
        r4   == r100 % 1461
        n1   == r4 \div 365
        r1   == r4 % 365
        y    == n400 * 400 + n100 * 100 + n4 * 4 + n1 + 1
    IN  IF n1 = 4 \/ n100 = 4
        THEN [year |-> y - 1, month |-> 12, day |-> 31]
        ELSE LET m == CHOOSE k \in 1..12 :
                        /\ DaysBeforeMonth(y, k) <= r1
                        /\ r1 < DaysBeforeMonth(y, k) + DaysInMonth(y, k)
             IN  [year |-> y, month |-> m, day |-> r1 - DaysBeforeMonth(y, m) + 1]

\* datetime arithmetic at one-hour resolution
Hours(dt) == dt.ord * 24 + dt.hour

DatetimeOf(h) == [ord |-> h \div 24, hour |-> h % 24]

\* a - b for two naive datetimes: a normalised timedelta
DatetimeSub(a, b) ==
    [days |-> (Hours(a) - Hours(b)) \div 24, hours |-> (Hours(a) - Hours(b)) % 24]

\* dt + timedelta(days = n)
DatetimeAddDays(dt, n) == [ord |-> dt.ord + n, hour |-> dt.hour]

\* dt - timedelta(hours = n)
DatetimeSubHours(dt, n) == DatetimeOf(Hours(dt) - n)

(***************************************************************************)
(* Text: digits, str(int), strftime("%Y-%m-%d"), strptime(s, "%Y-%m-%d").  *)
(***************************************************************************)
Digits == <<"0", "1", "2", "3", "4", "5", "6", "7", "8", "9">>

IsDigit(c) == \E i \in 1..10 : Digits[i] = c

DigitVal(c) == (CHOOSE i \in 1..10 : Digits[i] = c) - 1

RECURSIVE NatStr(_)
NatStr(n) ==
    IF n < 10 THEN <<Digits[n + 1]>>
    ELSE NatStr(n \div 10) \o <<Digits[(n % 10) + 1]>>

\* str(n) for an integer n, one character per element
IntStr(n) == IF n < 0 THEN <<"-">> \o NatStr(-n) ELSE NatStr(n)

RECURSIVE ZeroPad(_, _)
ZeroPad(s, width) == IF Len(s) >= width THEN s ELSE ZeroPad(<<"0">> \o s, width)

\* dt.strftime("%Y-%m-%d")
StrfTime(dt) ==
    LET d == FromOrdinal(dt.ord)
    IN  ZeroPad(NatStr(d.year), 4) \o <<"-">> \o ZeroPad(NatStr(d.month), 2)
            \o <<"-">> \o ZeroPad(NatStr(d.day), 2)

RECURSIVE DigitsVal(_)
DigitsVal(s) ==
    IF s = <<>> THEN 0 ELSE DigitsVal(SubSeq(s, 1, Len(s) - 1)) * 10 + DigitVal(s[Len(s)])

AllDigits(s) == \A i \in 1..Len(s) : IsDigit(s[i])

\* The positions of the "-" separators of s.
Dashes(s) == {i \in 1..Len(s) : s[i] = "-"}

\* datetime.strptime(s, "%Y-%m-%d"): %Y is four digits, %m and %d are one or
\* two digits (1..12, 1..31), the whole string must match, and the day must
\* exist in the month; anything else raises ValueError.
StrpTime(s) ==
    LET ok1 == /\ Len(s) >= 8
               /\ s[5] = "-"
               /\ AllDigits(SubSeq(s, 1, 4))
        rest == SubSeq(s, 6, Len(s))
        i2 == IF Dashes(rest) = {} THEN 0 ELSE CHOOSE i \in Dashes(rest) : \A j \in Dashes(rest) : i <= j
        ms == SubSeq(rest, 1, i2 - 1)
        ds == SubSeq(rest, i2 + 1, Len(rest))
        ok2 == /\ ok1
               /\ Cardinality(Dashes(rest)) = 1
               /\ Len(ms) \in 1..2 /\ AllDigits(ms)
               /\ Len(ds) \in 1..2 /\ AllDigits(ds)
        y == DigitsVal(SubSeq(s, 1, 4))
        m == DigitsVal(ms)
        d == DigitsVal(ds)
        ok == /\ ok2
              /\ y >= 1
              /\ m \in 1..12
              /\ d >= 1 /\ d <= DaysInMonth(y, m)
    IN  IF ok THEN [raised |-> FALSE, value |-> [ord |-> ToOrdinal(y, m, d), hour |-> 0]]
        ELSE [raised |-> TRUE, value |-> [ord |-> 0, hour |-> 0]]

(***************************************************************************)
(* IEEE 754 binary64 arithmetic, round to nearest, ties to even, for the   *)
(* expression int((num / den) * 100) of the progress computation.  A       *)
(* positive double is a record [m2, m1, m0, e] of value                    *)
(* (m2 * 2^36 + m1 * 2^18 + m0) * 2^e: the 53-bit significand is kept in   *)
(* three limbs so that every intermediate fits in 32 bits.                 *)
(***************************************************************************)
RECURSIVE Pow2(_)
Pow2(k) == IF k <= 0 THEN 1 ELSE 2 * Pow2(k - 1)

Limb == Pow2(18)

\* floor(log2(a / b)) for integers a, b > 0
RECURSIVE FloorLog2(_, _, _)
FloorLog2(a, b, n) ==
    IF a >= 2 * b THEN FloorLog2(a, 2 * b, n + 1)
    ELSE IF a < b THEN FloorLog2(2 * a, b, n - 1)
    ELSE n

\* The double nearest to a / b (Python's a / b on ints), 0 < a, b < 8192.
FloatDiv(a, b) ==
    LET n  == FloorLog2(a, b, 0)
        a0 == IF n <= 16 THEN a * Pow2(16 - n) ELSE a
        b0 == IF n <= 16 THEN b ELSE b * Pow2(n - 16)
        q2 == a0 \div b0
        r2 == a0 % b0
        q1 == (r2 * Limb) \div b0
        r1 == (r2 * Limb) % b0
        q0 == (r1 * Limb) \div b0
        r0 == (r1 * Limb) % b0
        up == IF 2 * r0 > b0 \/ (2 * r0 = b0 /\ q0 % 2 = 1) THEN 1 ELSE 0
        s0 == q0 + up
        s1 == q1 + (s0 \div Limb)
        s2 == q2 + (s1 \div Limb)
    IN  IF s2 = 2 * 65536
        THEN [m2 |-> 65536, m1 |-> 0, m0 |-> 0, e |-> n - 51]
        ELSE [m2 |-> s2, m1 |-> s1 % Limb, m0 |-> s0 % Limb, e |-> n - 52]

\* The double nearest to x * 100 (Python's x * 100 on a double x > 0).  The
\* exact product has 59 or 60 bits; the low 6 or 7 are rounded away and left
\* as zeros in the low limb.
FloatMul100(x) ==
    LET p0 == x.m0 * 100
        p1 == x.m1 * 100 + (p0 \div Limb)
        p2 == x.m2 * 100 + (p1 \div Limb)
        l0 == p0 % Limb
        l1 == p1 % Limb
        s  == IF p2 < Pow2(23) THEN 6 ELSE 7
        low  == l0 % Pow2(s)
        kept == l0 \div Pow2(s)
        up == IF low > Pow2(s - 1) \/ (low = Pow2(s - 1) /\ kept % 2 = 1) THEN 1 ELSE 0
        t0 == (kept + up) * Pow2(s)
        t1 == l1 + (t0 \div Limb)
        t2 == p2 + (t1 \div Limb)
    IN  [m2 |-> t2, m1 |-> t1 % Limb, m0 |-> t0 % Limb, e |-> x.e]

\* int(x) for a double 0 < x < 65536: the bits above the binary point, all of
\* which lie in the top limb.
FloatTrunc(x) == x.m2 \div Pow2(-x.e - 36)

\* int((num / den) * 100) for integers num and den > 0.  Rounding to nearest is
\* symmetric in the sign and int() truncates towards zero.
PctOf(num, den) ==
    IF num = 0 THEN 0
    ELSE IF num < 0 THEN -FloatTrunc(FloatMul100(FloatDiv(-num, den)))
    ELSE FloatTrunc(FloatMul100(FloatDiv(num, den)))

Max(a, b) == IF a >= b THEN a ELSE b

Min(a, b) == IF a <= b THEN a ELSE b

(***************************************************************************)
(* Bounds and inputs.  The clock counts hours from ClockStart 00:00 UTC.   *)
(* A crop record's planted field is a str or a date object: planted.str    *)
(* tells which, and the other of text and ord is left empty.               *)
(***************************************************************************)
MaxClock == 192

MaxBatch == 2

ClockStart == ToOrdinal(2025, 11, 24)

Text(y, m, d) == StrfTime([ord |-> ToOrdinal(y, m, d), hour |-> 0])

PlantedStr(chars) == [str |-> TRUE, text |-> chars, ord |-> 0]

PlantedDate(y, m, d) == [str |-> FALSE, text |-> <<>>, ord |-> ToOrdinal(y, m, d)]

Record(name, planted, qty, area, rain) ==
    [name |-> name, planted |-> planted, qty |-> qty, area |-> area, rainfall_mm |-> rain]

\* Records of the initial inventories (FarmDash16.py:144-145, FarmDash9.py:46),
\* and records that exercise the float rounding (87 of 150 days on
\* 2025-11-25), a date that does not exist, a species that only FarmDash9.py
\* knows, and a planting date that is a date object, ready on 2025-11-24.
Items ==
    { Record("Sweet Corn", PlantedStr(Text(2025, 11, 15)), "600 seedlings", "4150 m2", 45),
      Record("Beetroot", PlantedStr(Text(2025, 11, 30)), "200 seedlings", "420 m2", 12),
      Record("Onions", PlantedStr(Text(2025, 6, 28)), "15 kg", "3238 m2", 110),
      Record("Onions", PlantedStr(Text(2025, 8, 30)), "100 seedlings", "Mapped Plot", 0),
      Record("Beetroot", PlantedStr(<<"2", "0", "2", "5", "-", "0", "2", "-", "3", "0">>),
             "100 seedlings", "Mapped Plot", 0),
      Record("Okra", PlantedStr(Text(2025, 11, 24)), "100 seedlings", "Mapped Plot", 0),
      Record("Cabbages", PlantedDate(2025, 8, 26), "500 heads", "1200 m2", 88) }

RECURSIVE SeqsUpTo(_, _)
SeqsUpTo(S, n) ==
    IF n = 0 THEN {<<>>}
    ELSE LET shorter == SeqsUpTo(S, n - 1)
         IN  shorter \cup {Append(b, x) : b \in {c \in shorter : Len(c) = n - 1}, x \in S}

Batches == SeqsUpTo(Items, MaxBatch)

(***************************************************************************)
(* FarmDash16.py                                                           *)
(***************************************************************************)
Stage(name, days, icon, care) == [name |-> name, days |-> days, icon |-> icon, care |-> care]

\* CROP_STAGES; the icons are written by their Unicode names
CROP_STAGES ==
    [c \in {"Sweet Corn", "Beetroot", "Cabbages", "Onions"} |->
        CASE c = "Sweet Corn" ->
               [totalDuration |-> 85,
                stages |-> << Stage("Emergence", 10, "SEEDLING",
                                    <<"Protect from birds", "Keep soil surface moist">>),
                              Stage("Vegetative", 35, "HERB",
                                    <<"High nitrogen fertilizer", "Check for stalk borers">>),
                              Stage("Tasseling", 20, "EAR OF MAIZE",
                                    <<"Critical water stage", "Ensure pollination humidity">>),
                              Stage("Ripening", 20, "SPARKLES",
                                    <<"Check kernel milkiness", "Prepare for harvest">>) >>]
          [] c = "Beetroot" ->
               [totalDuration |-> 60,
                stages |-> << Stage("Germination", 10, "SEEDLING",
                                    <<"Thin seedlings to 5cm", "Consistent moisture">>),
                              Stage("Leaf Growth", 25, "LEAF FLUTTERING IN WIND",
                                    <<"Nitrogen liquid feed", "Keep weed-free">>),
                              Stage("Bulbing", 25, "LARGE PURPLE CIRCLE",
                                    <<"Deep watering twice weekly", "Avoid high nitrogen now">>) >>]
          [] c = "Cabbages" ->
               [totalDuration |-> 90,
                stages |-> << Stage("Establishment", 20, "SEEDLING",
                                    <<"Damping-off prevention", "Cutworm check">>),
                              Stage("Cupping", 35, "LEAFY GREEN",
                                    <<"Regular irrigation", "Caterpillar monitoring">>),
                              Stage("Heading", 35, "LARGE GREEN CIRCLE",
                                    <<"Maintain moisture to prevent splitting", "Final feed">>) >>]
          [] c = "Onions" ->
               [totalDuration |-> 150,
                stages |-> << Stage("Vegetative", 50, "SEEDLING",
                                    <<"Weed control is vital", "Nitrogen side-dressing">>),
                              Stage("Bulbing", 70, "ONION",
                                    <<"Reduce water as leaves yellow", "Stop feeding">>),
                              Stage("Drying", 30, "SUN",
                                    <<"Stop all irrigation", "Wait for neck collapse">>) >>]]

\* datetime.now(pytz.timezone("Africa/Johannesburg")) at the UTC instant of
\* the clock: the zone's wall clock, two hours ahead of UTC all year.
JohannesburgNow(clock) ==
    LET wall == DatetimeOf(ClockStart * 24 + clock + 2)
    IN  [ord |-> wall.ord, hour |-> wall.hour, tzinfo |-> "Africa/Johannesburg"]

\* get_sast_now(): subtracting a timedelta from an aware datetime moves its
\* wall clock fields and keeps its tzinfo.
get_sast_now(clock) ==
    LET sast == JohannesburgNow(clock)
        back == DatetimeSubHours([ord |-> sast.ord, hour |-> sast.hour], 2)
    IN  [ord |-> back.ord, hour |-> back.hour, tzinfo |-> sast.tzinfo]

\* .replace(tzinfo=None): the wall clock fields alone
ReplaceTzinfoNone(dt) == [ord |-> dt.ord, hour |-> dt.hour]

\* The right-hand side of line 106: strptime for a str (which may raise
\* ValueError), pd.to_datetime (midnight of the date) otherwise.
ParsePlanted(item) ==
    IF item.planted.str THEN StrpTime(item.planted.text)
    ELSE [raised |-> FALSE, value |-> [ord |-> item.planted.ord, hour |-> 0]]

\* CROP_STAGES.get(item['name'], {"totalDuration": 90, "stages": []})
Config(name) ==
    IF name \in DOMAIN CROP_STAGES THEN CROP_STAGES[name]
    ELSE [totalDuration |-> 90, stages |-> <<>>]

\* The days of the first k stages
RECURSIVE SumDays(_, _)
SumDays(stages, k) == IF k = 0 THEN 0 ELSE SumDays(stages, k - 1) + stages[k].days

\* The loop of lines 116-123 with the days passed counted within the crop's
\* cycle, which starts again after the last stage
RECURSIVE StageWalkCyclic(_, _, _, _)
StageWalkCyclic(stages, i, accumulated, days_passed) ==
    IF i > Len(stages)
    THEN [curr_stage |-> "Ready", curr_icon |-> "WHITE HEAVY CHECK MARK",
          stage_care |-> <<"Harvest and cure.">>]
    ELSE LET in_cycle == days_passed % SumDays(stages, Len(stages))
         IN  IF accumulated <= in_cycle /\ in_cycle < accumulated + stages[i].days
             THEN [curr_stage |-> stages[i].name, curr_icon |-> stages[i].icon,
                   stage_care |-> stages[i].care]
             ELSE StageWalkCyclic(stages, i + 1, accumulated + stages[i].days, days_passed)

\* The loop of lines 116-123 from stage i on, with the running offset.
RECURSIVE StageWalk(_, _, _, _)
StageWalk(stages, i, accumulated, days_passed) ==
    IF i > Len(stages)
    THEN [curr_stage |-> "Ready", curr_icon |-> "WHITE HEAVY CHECK MARK",
          stage_care |-> <<"Harvest and cure.">>]
    ELSE IF accumulated <= days_passed /\ days_passed < accumulated + stages[i].days
    THEN [curr_stage |-> stages[i].name, curr_icon |-> stages[i].icon,
          stage_care |-> stages[i].care]
    ELSE StageWalk(stages, i + 1, accumulated + stages[i].days, days_passed)

\* progress of line 127 with the days that remain in place of the days passed
ProgressCountdown(is_harvested, days_passed, total_days) ==
    IF is_harvested THEN 100
    ELSE Max(0, Min(100, PctOf(total_days - days_passed, total_days)))

\* progress of line 127
Progress(is_harvested, days_passed, total_days) ==
    IF is_harvested THEN 100 ELSE Max(0, Min(100, PctOf(days_passed, total_days)))

\* The local variables of one iteration of process_crops (lines 107-127),
\* for a record whose planting date is p_date.
Locals(item, p_date, t) ==
    LET config == Config(item.name)
        total_days == config.totalDuration
        ready_date == DatetimeAddDays(p_date, total_days)
        days_passed == DatetimeSub(t, p_date).days
        walk == StageWalk(config.stages, 1, 0, days_passed)
        days_left == DatetimeSub(ready_date, t).days
        is_harvested == days_left < 0
    IN  [p_date |-> p_date, total_days |-> total_days, ready_date |-> ready_date,
         days_passed |-> days_passed, curr_stage |-> walk.curr_stage,
         curr_icon |-> walk.curr_icon, stage_care |-> walk.stage_care,
         days_left |-> days_left, is_harvested |-> is_harvested,
         progress |-> Progress(is_harvested, days_passed, total_days)]

\* The number itself, sign kept
Signed(n) == n

Abs(n) == IF n < 0 THEN -n ELSE n

\* The dict appended in lines 129-138.  An f-string is the sequence of its
\* parts: literal text as one element, a formatted value by its characters.
Enriched(item, L) ==
    [name |-> item.name, planted |-> item.planted, qty |-> item.qty, area |-> item.area,
     rainfall_mm |-> item.rainfall_mm,
     planted_str |-> StrfTime(L.p_date),
     progress |-> L.progress,
     status |-> IF L.is_harvested THEN <<"Harvested">> ELSE <<L.curr_icon, " ", L.curr_stage>>,
     days_left |-> L.days_left,
     overdue_label |-> IF L.is_harvested THEN <<"Overdue by ">> \o IntStr(Abs(L.days_left))
                       ELSE IntStr(L.days_left) \o <<" days left">>,
     is_harvested |-> L.is_harvested,
     care_steps |-> L.stage_care]

\* process_crops(data) from record i on, with `now` read once before the
\* loop.  An exception of strptime is not caught: it ends the call, and the
\* list built so far is lost with the frame.
RECURSIVE ProcessLoop(_, _, _, _)
ProcessLoop(batch, t, i, acc) ==
    IF i > Len(batch) THEN [raised |-> FALSE, value |-> acc]
    ELSE LET p == ParsePlanted(batch[i])
         IN  IF p.raised THEN [raised |-> TRUE, value |-> <<>>]
             ELSE ProcessLoop(batch, t, i + 1,
                              Append(acc, Enriched(batch[i], Locals(batch[i], p.value, t))))

process_crops(batch, t) == ProcessLoop(batch, t, 1, <<>>)

(***************************************************************************)
(* FarmDash9.py.  Its get_sast_now (lines 59-61) is the same text as       *)
(* FarmDash16.py's and is modelled by the same operator.                   *)
(***************************************************************************)
\* CROP_STAGES of FarmDash9.py: total durations only
CROP_STAGES9 ==
    [c \in {"Beetroot", "Sweet Corn", "Cabbages", "Onions", "Okra"} |->
        CASE c = "Beetroot" -> [totalDuration |-> 60]
          [] c = "Sweet Corn" -> [totalDuration |-> 85]
          [] c = "Cabbages" -> [totalDuration |-> 90]
          [] c = "Onions" -> [totalDuration |-> 150]
          [] c = "Okra" -> [totalDuration |-> 65]]

\* CROP_STAGES.get(item['name'], {"totalDuration": 90})['totalDuration']
Duration9(name) ==
    IF name \in DOMAIN CROP_STAGES9 THEN CROP_STAGES9[name].totalDuration ELSE 90

\* Lines 67-70: the bare except replaces a date that does not parse by now.
ParsePlanted9(item, t) ==
    LET p == ParsePlanted(item) IN IF p.raised THEN t ELSE p.value

\* progress of line 76
Progress9(is_harvested, duration, days_left) ==
    IF is_harvested THEN 100 ELSE Max(0, PctOf(duration - days_left, duration))

\* One iteration of the loop of process_and_sort_crops (lines 67-86).
Enriched9(item, t) ==
    LET p_date == ParsePlanted9(item, t)
        duration == Duration9(item.name)
        ready_date == DatetimeAddDays(p_date, duration)
        days_left == DatetimeSub(ready_date, t).days
        is_harvested == days_left < 0
    IN  [name |-> item.name, planted |-> item.planted, qty |-> item.qty, area |-> item.area,
         rainfall_mm |-> item.rainfall_mm,
         planted_str |-> StrfTime(p_date),
         ready_date |-> ready_date,
         progress |-> Progress9(is_harvested, duration, days_left),
         status |-> IF is_harvested THEN <<"Harvested">> ELSE <<"Growing">>,
         overdue_label |-> IF is_harvested THEN <<"Overdue by ">> \o IntStr(Abs(days_left))
                           ELSE IntStr(days_left) \o <<" days left">>,
         is_harvested |-> is_harvested]

\* The list built by the loop, before the sort.
RECURSIVE ProcessLoop9(_, _, _, _)
ProcessLoop9(batch, t, i, acc) ==
    IF i > Len(batch) THEN acc
    ELSE ProcessLoop9(batch, t, i + 1, Append(acc, Enriched9(batch[i], t)))

\* dt.timestamp() of a naive datetime, in seconds, on a host whose local zone
\* is UTC (any fixed zone shifts every value alike).
Timestamp(dt) == ((dt.ord - ToOrdinal(1970, 1, 1)) * 24 + dt.hour) * 3600

\* The key of line 87 without the negation of the timestamp
SortKeyAscending(x) ==
    <<x.is_harvested, IF ~x.is_harvested THEN x.ready_date ELSE Timestamp(x.ready_date)>>

\* The key of line 87: a pair whose second component is a datetime for a
\* growing record and a negated timestamp for a harvested one.
SortKey(x) ==
    <<x.is_harvested, IF ~x.is_harvested THEN x.ready_date ELSE -Timestamp(x.ready_date)>>

\* a < b on two keys, as Python orders tuples: by the first components when
\* they differ (False < True), by the second ones otherwise.
KeyLess(a, b) ==
    IF a[1] # b[1] THEN ~a[1]
    ELSE IF a[1] THEN a[2] < b[2]
    ELSE Hours(a[2]) < Hours(b[2])

\* list.sort(key=...) is stable: x, which followed the elements of `sorted`
\* in the list, goes before the first element whose key is greater.
RECURSIVE InsertByKey(_, _, _)
InsertByKey(sorted, x, i) ==
    IF i > Len(sorted) THEN Append(sorted, x)
    ELSE IF KeyLess(SortKey(x), SortKey(sorted[i]))
    THEN SubSeq(sorted, 1, i - 1) \o <<x>> \o SubSeq(sorted, i, Len(sorted))
    ELSE InsertByKey(sorted, x, i + 1)

RECURSIVE SortByKey(_, _, _)
SortByKey(list, i, sorted) ==
    IF i > Len(list) THEN sorted
    ELSE SortByKey(list, i + 1, InsertByKey(sorted, list[i], 1))

process_and_sort_crops(batch, t) == SortByKey(ProcessLoop9(batch, t, 1, <<>>), 1, <<>>)

(***************************************************************************)
(* The state machine: the clock ticks between calls; a call reads the      *)
(* clock once, runs to its end and leaves its outcome until the caller     *)
(* drops it.                                                               *)
(***************************************************************************)
NoTime == [ord |-> 0, hour |-> 0]

(***************************************************************************)
(* calculate_polygon_area (FarmDash16.py:90-100) in exact arithmetic.  A   *)
(* vertex is a pair <<lon, lat>> of whole degrees.  The sine of a latitude *)
(* is read from a table f of twice its value, so that the per-edge term    *)
(* radians(lon2 - lon1) * (2 + sin(lat1) + sin(lat2)) is the integer       *)
(* (lon2 - lon1) * (4 + f[lat1] + f[lat2]) in the unit radians(1) / 2, and *)
(* the value returned, abs(area * R * R / 2.0), is an integer in the unit  *)
(* radians(1) * R * R / 4 with R = 6378137.                                *)
(***************************************************************************)
MaxRing == 4

Lons == {0, 1}

Lats == {0, 30, 90}

\* 2 * sin(lat) for the latitudes of Lats, where it is exact
TwiceSin == [lat \in Lats |-> CASE lat = 0 -> 0 [] lat = 30 -> 1 [] lat = 90 -> 2]

\* The tables the area is computed with: the sine, and two other functions
\* of the latitude in its place.
SineTables ==
    { TwiceSin,
      [lat \in Lats |-> CASE lat = 0 -> 3 [] lat = 30 -> -1 [] lat = 90 -> 0],
      [lat \in Lats |-> 0] }

\* The loop of lines 96-99 from index i on (0-based, as range(len(coords))).
RECURSIVE AreaLoop(_, _, _, _)
AreaLoop(ring, sine, i, acc) ==
    IF i >= Len(ring) THEN acc
    ELSE LET p1 == ring[i + 1]
             p2 == ring[((i + 1) % Len(ring)) + 1]
         IN  AreaLoop(ring, sine, i + 1,
                      acc + (p2[1] - p1[1]) * (4 + sine[p1[2]] + sine[p2[2]]))

\* calculate_polygon_area without abs on the result
AreaSigned(ring, sine) ==
    IF Len(ring) = 0 \/ Len(ring) < 3 THEN 0 ELSE AreaLoop(ring, sine, 0, 0)

\* The loop without the wrap of the last vertex to the first
RECURSIVE AreaLoopOpen(_, _, _, _)
AreaLoopOpen(ring, sine, i, acc) ==
    IF i >= Len(ring) - 1 THEN acc
    ELSE LET p1 == ring[i + 1]
             p2 == ring[i + 2]
         IN  AreaLoopOpen(ring, sine, i + 1,
                          acc + (p2[1] - p1[1]) * (4 + sine[p1[2]] + sine[p2[2]]))

\* calculate_polygon_area over the open path of the vertices
AreaOpen(ring, sine) ==
    IF Len(ring) = 0 \/ Len(ring) < 3 THEN 0 ELSE Abs(AreaLoopOpen(ring, sine, 0, 0))

\* calculate_polygon_area(coords)
calculate_polygon_area(ring, sine) ==
    IF Len(ring) = 0 \/ Len(ring) < 3 THEN 0 ELSE Abs(AreaLoop(ring, sine, 0, 0))

(***************************************************************************)
(* The password gate (FarmDash16.py:15-32, FarmDash9.py:12-23).            *)
(* st.session_state is a function from the keys it holds to their values;  *)
(* crop_db is kept by the number of its records.                           *)
(***************************************************************************)
MaxDb == 5

\* st.secrets["password"]
Secret == "secret"

\* What can be typed into the password field
Passwords == {"", Secret, "guess"}

\* st.session_state[key] = value
SetKey(state, key, value) ==
    [k \in DOMAIN state \cup {key} |-> IF k = key THEN value ELSE state[k]]

\* del st.session_state[key]
DelKey(state, key) == [k \in DOMAIN state \ {key} |-> state[k]]

\* password_entered (FarmDash16.py:16-21)
password_entered(state) ==
    IF state["password"] = Secret
    THEN DelKey(SetKey(state, "password_correct", TRUE), "password")
    ELSE SetKey(state, "password_correct", FALSE)

\* the on_change lambda of FarmDash9.py:14
on_change9(state) == SetKey(state, "password_correct", state["password"] = Secret)

\* check_password that lets every session through that holds the key
check_password_present(state) == "password_correct" \in DOMAIN state

\* The value check_password returns; in both branches that return False it
\* has put the password field on the screen.
check_password(state) ==
    IF "password_correct" \notin DOMAIN state THEN FALSE
    ELSE IF ~state["password_correct"] THEN FALSE
    ELSE TRUE

\* The text in the password field: its widget state, or the empty default
FieldValue(state) == IF "password" \in DOMAIN state THEN state["password"] ELSE ""

\* Positions of a run after `if not check_password(): st.stop()`
PastGate == {"init_db", "sidebar", "content", "done"}

(***************************************************************************)
(* The state machine of the enrichment calls: the clock ticks between      *)
(* calls; a call reads the clock once, runs to its end and leaves its      *)
(* outcome until the caller drops it.                                      *)
(***************************************************************************)
\* No drawing on the map.
AreaIdle ==
    /\ coords = <<>>
    /\ f = TwiceSin
    /\ apc = "idle"
    /\ calculated_area_m2 = 0

\* A session whose script has not run yet.
GateIdle ==
    /\ app = "FarmDash16"
    /\ session_state = <<>>
    /\ rpc = "gate"
    /\ screen = "blank"
    /\ pending = "none"
    /\ gate_saw = "none"
    /\ locked = FALSE

Init ==
    /\ utc = 0
    /\ data \in Batches
    /\ pc = "idle"
    /\ now = NoTime
    /\ processed = <<>>
    /\ AreaIdle
    /\ GateIdle

Tick ==
    /\ pc = "idle"
    /\ utc < MaxClock
    /\ utc' = utc + 1
    /\ UNCHANGED <<data, pc, now, processed>>
    /\ UNCHANGED otherThanCrop

CallProcessCrops ==
    /\ pc = "idle"
    /\ LET t == ReplaceTzinfoNone(get_sast_now(utc))
           r == process_crops(data, t)
       IN  /\ now' = t
           /\ processed' = r.value
           /\ pc' = IF r.raised THEN "raised16" ELSE "returned16"
    /\ UNCHANGED <<utc, data>>
    /\ UNCHANGED otherThanCrop

CallProcessAndSortCrops ==
    /\ pc = "idle"
    /\ LET t == ReplaceTzinfoNone(get_sast_now(utc))
       IN  /\ now' = t
           /\ processed' = process_and_sort_crops(data, t)
           /\ pc' = "returned9"
    /\ UNCHANGED <<utc, data>>
    /\ UNCHANGED otherThanCrop

Discard ==
    /\ pc # "idle"
    /\ pc' = "idle"
    /\ now' = NoTime
    /\ processed' = <<>>
    /\ UNCHANGED <<utc, data>>
    /\ UNCHANGED otherThanCrop

Next == Tick \/ CallProcessCrops \/ CallProcessAndSortCrops \/ Discard

Spec == Init /\ [][Next]_vars

(***************************************************************************)
(* The state machine of the Field Mapper (FarmDash16.py:262-278): the user *)
(* draws the ring vertex by vertex; a script run computes the area of the  *)
(* drawing (line 278); the next run starts again from 0 (line 266).        *)
(***************************************************************************)
CropIdle ==
    /\ utc = 0
    /\ data = <<>>
    /\ pc = "idle"
    /\ now = NoTime
    /\ processed = <<>>

InitArea ==
    /\ coords = <<>>
    /\ f \in SineTables
    /\ apc = "idle"
    /\ calculated_area_m2 = 0
    /\ CropIdle
    /\ GateIdle

DrawVertex ==
    /\ apc = "idle"
    /\ Len(coords) < MaxRing
    /\ \E lon \in Lons, lat \in Lats : coords' = Append(coords, <<lon, lat>>)
    /\ UNCHANGED <<f, apc, calculated_area_m2>>
    /\ UNCHANGED otherThanArea

CallCalculatePolygonArea ==
    /\ apc = "idle"
    /\ calculated_area_m2' = calculate_polygon_area(coords, f)
    /\ apc' = "returned"
    /\ UNCHANGED <<coords, f>>
    /\ UNCHANGED otherThanArea

NextRun ==
    /\ apc = "returned"
    /\ apc' = "idle"
    /\ calculated_area_m2' = 0
    /\ UNCHANGED <<coords, f>>
    /\ UNCHANGED otherThanArea

NextArea == DrawVertex \/ CallCalculatePolygonArea \/ NextRun

SpecArea == InitArea /\ [][NextArea]_vars

(***************************************************************************)
(* The state machine of one browser session.  A script run goes from the   *)
(* gate through the crop_db initialisation and the sidebar to the page     *)
(* content; st.stop() ends it at the gate and st.rerun() starts the next   *)
(* run.  A user's action on a widget that is on the screen ends the run in *)
(* progress, runs the widget's callback and starts a new run.              *)
(***************************************************************************)
InitGate ==
    /\ app \in {"FarmDash16", "FarmDash9"}
    /\ session_state = <<>>
    /\ rpc = "gate"
    /\ screen = "blank"
    /\ pending = "none"
    /\ gate_saw = "none"
    /\ locked = FALSE
    /\ CropIdle
    /\ AreaIdle

\* st.rerun(), and the run that a user's action starts
NewRun(click) ==
    /\ rpc' = "gate"
    /\ pending' = click
    /\ gate_saw' = "none"

\* if not check_password(): st.stop()
RunCheckPassword ==
    /\ rpc = "gate"
    /\ gate_saw' = IF "password_correct" \notin DOMAIN session_state THEN "absent"
                   ELSE IF session_state["password_correct"] THEN "True" ELSE "False"
    /\ IF check_password(session_state)
       THEN /\ rpc' = "init_db"
            /\ UNCHANGED <<screen, pending>>
       ELSE /\ rpc' = "stopped"
            /\ screen' = "login"
            /\ pending' = "none"
    /\ UNCHANGED <<app, session_state, locked>>
    /\ UNCHANGED otherThanGate

\* if 'crop_db' not in st.session_state: st.session_state.crop_db = [...]
RunInitCropDb ==
    /\ rpc = "init_db"
    /\ session_state' =
           IF "crop_db" \in DOMAIN session_state THEN session_state
           ELSE SetKey(session_state, "crop_db", IF app = "FarmDash16" THEN 2 ELSE 4)
    /\ rpc' = "sidebar"
    /\ UNCHANGED <<app, screen, pending, gate_saw, locked>>
    /\ UNCHANGED otherThanGate

\* The sidebar; if st.button("Logout"): password_correct = False; st.rerun()
RunSidebar ==
    /\ rpc = "sidebar"
    /\ screen' = "page"
    /\ IF pending = "logout"
       THEN /\ session_state' = SetKey(session_state, "password_correct", FALSE)
            /\ locked' = TRUE
            /\ NewRun("none")
       ELSE /\ rpc' = "content"
            /\ UNCHANGED <<session_state, pending, gate_saw, locked>>
    /\ UNCHANGED app
    /\ UNCHANGED otherThanGate

\* The page content: it reads crop_db; the submitted form appends a record
\* and the Save button replaces the list, each followed by st.rerun().  A
\* run that comes to its end leaves no state of the password field, which
\* it has not shown.
RunPageContent ==
    /\ rpc = "content"
    /\ "crop_db" \in DOMAIN session_state
    /\ \/ /\ pending = "append"
          /\ session_state' = SetKey(session_state, "crop_db",
                                     Min(MaxDb, session_state["crop_db"] + 1))
          /\ NewRun("none")
       \/ /\ pending = "save"
          /\ \E n \in 0..MaxDb : session_state' = SetKey(session_state, "crop_db", n)
          /\ NewRun("none")
       \/ /\ pending \notin {"append", "save"}
          /\ session_state' = DelKey(session_state, "password")
          /\ rpc' = "done"
          /\ pending' = "none"
          /\ UNCHANGED gate_saw
    /\ UNCHANGED <<app, screen, locked>>
    /\ UNCHANGED otherThanGate

\* The user changes the text of the password field: the widget state takes
\* the text, the on_change callback runs, then the script.
SubmitPassword ==
    /\ screen = "login"
    /\ \E p \in Passwords \ {FieldValue(session_state)} :
           LET typed == SetKey(session_state, "password", p)
           IN  /\ session_state' = IF app = "FarmDash16" THEN password_entered(typed)
                                   ELSE on_change9(typed)
               /\ locked' = IF p = Secret THEN FALSE ELSE locked
    /\ NewRun("none")
    /\ UNCHANGED <<app, screen>>
    /\ UNCHANGED otherThanGate

\* The user clicks Logout, submits the Field Mapper form, clicks Save All
\* Changes, or changes the page in the sidebar.
ClickOnPage ==
    /\ screen = "page"
    /\ \E click \in {"logout", "append", "save", "none"} : NewRun(click)
    /\ UNCHANGED <<app, session_state, screen, locked>>
    /\ UNCHANGED otherThanGate

NextGate ==
    \/ RunCheckPassword
    \/ RunInitCropDb
    \/ RunSidebar
    \/ RunPageContent
    \/ SubmitPassword
    \/ ClickOnPage

SpecGate == InitGate /\ [][NextGate]_vars

(***************************************************************************)
(* Properties                                                              *)
(***************************************************************************)
\* The record of the input that a result record carries (**item).
Original(r) ==
    [name |-> r.name, planted |-> r.planted, qty |-> r.qty, area |-> r.area,
     rainfall_mm |-> r.rainfall_mm]

\* The whole-day floor of (t - planted date) of a record whose date parses.
DaysPassed(item, t) == DatetimeSub(t, ParsePlanted(item).value).days

\* floor(100 * a / b) clamped to 0..100, in exact arithmetic.
ExactPct(a, b) == Max(0, Min(100, (100 * a) \div b))

\* The reference instant a call at clock c works with.
NowAt(c) == ReplaceTzinfoNone(get_sast_now(c))

\* C1: for every record and every reference instant of process_crops,
\* days_left = totalDuration - days_passed, days_passed being the whole-day
\* floor of (now - planted date).
C1_DaysLeft ==
    pc = "returned16" =>
        \A i \in 1..Len(processed) :
            processed[i].days_left =
                Config(data[i].name).totalDuration - DaysPassed(data[i], now)

\* C2: a record whose days_passed equals its species' totalDuration has
\* days_left = 0 and is not harvested.
C2_Boundary ==
    pc = "returned16" =>
        \A i \in 1..Len(processed) :
            DaysPassed(data[i], now) = Config(data[i].name).totalDuration =>
                processed[i].days_left = 0 /\ ~processed[i].is_harvested

\* C3: the current stage is the first stage whose window [offset, offset +
\* days) holds days_passed, and the record is "Ready" with the one care step
\* "Harvest and cure." exactly when days_passed >= the sum of the stage
\* durations or the species has no stages, planting dates in the future
\* included.
C3_Stage ==
    pc = "returned16" =>
        \A i \in 1..Len(processed) :
            LET stages == Config(data[i].name).stages
                dp == DaysPassed(data[i], now)
                L == Locals(data[i], ParsePlanted(data[i]).value, now)
                ready == /\ L.curr_stage = "Ready"
                         /\ processed[i].care_steps = <<"Harvest and cure.">>
            IN  /\ \A k \in 1..Len(stages) :
                       (SumDays(stages, k - 1) <= dp /\ dp < SumDays(stages, k)) =>
                           /\ L.curr_stage = stages[k].name
                           /\ processed[i].care_steps = stages[k].care
                /\ ready <=> (dp >= SumDays(stages, Len(stages)) \/ stages = <<>>)

\* C4 for process_crops: progress is 100 for a harvested record and otherwise
\* floor(days_passed / totalDuration * 100) clamped to 0..100.
C4_Progress16 ==
    pc = "returned16" =>
        \A i \in 1..Len(processed) :
            /\ processed[i].progress \in 0..100
            /\ processed[i].progress =
                   IF processed[i].is_harvested THEN 100
                   ELSE ExactPct(DaysPassed(data[i], now), Config(data[i].name).totalDuration)

\* C4 for process_and_sort_crops, whose planting date is now when the text
\* does not parse.
C4_Progress9 ==
    pc = "returned9" =>
        \A i \in 1..Len(processed) :
            LET r == processed[i]
                dp == DatetimeSub(now, ParsePlanted9(Original(r), now)).days
            IN  /\ r.progress \in 0..100
                /\ r.progress =
                       IF r.is_harvested THEN 100 ELSE ExactPct(dp, Duration9(r.name))

\* C4: the progress returned by both enrichment functions is an integer in
\* 0..100, 100 when harvested and otherwise floor(days_passed / totalDuration
\* * 100) clamped to 0..100.
C4_Progress == C4_Progress16 /\ C4_Progress9

\* The progress process_crops computes for a record at clock c.
ProgressAt(item, c) == Locals(item, ParsePlanted(item).value, NowAt(c)).progress

\* C5: for a fixed record the progress of process_crops never decreases as
\* the reference instant advances, and once 100 it stays 100.
C5_Monotone ==
    [][utc' > utc =>
           \A i \in 1..Len(data) :
               ~ParsePlanted(data[i]).raised =>
                   LET before == ProgressAt(data[i], utc)
                       after == ProgressAt(data[i], utc')
                   IN  before <= after /\ (before = 100 => after = 100)]_vars

\* A call at a later instant returns a record whose progress has grown since
\* clock 0, and one that has saturated at 100.
C5_Witness ==
    /\ pc = "returned16"
    /\ utc > 0
    /\ \E i \in 1..Len(processed) :
           /\ processed[i].progress > ProgressAt(data[i], 0)
           /\ processed[i].progress < 100
    /\ \E i \in 1..Len(processed) :
           /\ ProgressAt(data[i], 0) < 100
           /\ processed[i].progress = 100

\* C6: the reference instant of a call is the wall clock of UTC+2: its date
\* and hour are those of the UTC instant plus two hours.
C6_WallClock ==
    pc # "idle" => now = DatetimeOf(ClockStart * 24 + utc + 2)

\* C7: a record of process_crops whose planted string does not parse does not
\* abort the batch: the call returns and every other record is in the result.
C7_NoAbort ==
    pc \in {"returned16", "raised16"} =>
        /\ pc = "returned16"
        /\ \A i \in 1..Len(data) :
               ~ParsePlanted(data[i]).raised =>
                   \E j \in 1..Len(processed) : Original(processed[j]) = data[i]

\* C8: a record whose name is no key of the catalog is enriched with
\* totalDuration 90 and no stages: days_left = 90 - days_passed and the stage
\* is none of the catalog's.
C8_UnknownSpecies ==
    pc = "returned16" =>
        \A i \in 1..Len(processed) :
            data[i].name \notin DOMAIN CROP_STAGES =>
                LET L == Locals(data[i], ParsePlanted(data[i]).value, now)
                IN  /\ L.total_days = 90
                    /\ processed[i].days_left = 90 - DaysPassed(data[i], now)
                    /\ \A c \in DOMAIN CROP_STAGES :
                           \A k \in 1..Len(CROP_STAGES[c].stages) :
                               /\ L.curr_stage # CROP_STAGES[c].stages[k].name
                               /\ processed[i].care_steps # CROP_STAGES[c].stages[k].care

\* C9: process_crops returns one enriched record per input record, in the
\* order of the input, and the empty list for the empty input.
C9_OnePerRecord ==
    pc \in {"returned16", "raised16"} =>
        /\ pc = "returned16"
        /\ Len(processed) = Len(data)
        /\ \A i \in 1..Len(data) : Original(processed[i]) = data[i]

\* The number of positions of list that hold x.
Count(list, x) == Cardinality({i \in 1..Len(list) : list[i] = x})

\* C10: the list process_and_sort_crops returns is a permutation of the
\* enriched records, harvested records after growing ones, growing ones by
\* ascending ready_date, harvested ones by descending ready_date.
C10_Sorted ==
    pc = "returned9" =>
        LET enriched == ProcessLoop9(data, now, 1, <<>>)
        IN  /\ Len(processed) = Len(enriched)
            /\ \A i \in 1..Len(enriched) :
                   Count(processed, enriched[i]) = Count(enriched, enriched[i])
            /\ \A i, j \in 1..Len(processed) :
                   i < j =>
                       /\ ~(processed[i].is_harvested /\ ~processed[j].is_harvested)
                       /\ (~processed[i].is_harvested /\ ~processed[j].is_harvested) =>
                              Hours(processed[i].ready_date) <= Hours(processed[j].ready_date)
                       /\ (processed[i].is_harvested /\ processed[j].is_harvested) =>
                              Hours(processed[i].ready_date) >= Hours(processed[j].ready_date)

\* The sort has exchanged two harvested records: the one that was ready later
\* came second in the input and comes first in the result.
C10_Witness ==
    /\ pc = "returned9"
    /\ Len(processed) = 2
    /\ Original(processed[1]) = data[2]
    /\ Original(processed[2]) = data[1]
    /\ processed[1].is_harvested
    /\ processed[2].is_harvested
    /\ Hours(processed[1].ready_date) > Hours(processed[2].ready_date)
\* list(reversed(ring))
RECURSIVE Reversed(_)
Reversed(ring) == IF ring = <<>> THEN <<>> ELSE Append(Reversed(Tail(ring)), Head(ring))

\* ring[k:] + ring[:k]
Shifted(ring, k) == SubSeq(ring, k + 1, Len(ring)) \o SubSeq(ring, 1, k)

\* C11: calculate_polygon_area returns 0 for every input of fewer than 3
\* vertices and a non-negative value for every input of 3 or more.
C11_Degenerate ==
    apc = "returned" =>
        /\ Len(coords) < 3 => calculated_area_m2 = 0
        /\ calculated_area_m2 >= 0

\* The area of a ring drawn clockwise (its signed sum is negative) has been
\* returned, and is positive.
C11_Witness ==
    /\ apc = "returned"
    /\ Len(coords) >= 3
    /\ f = TwiceSin
    /\ AreaLoop(coords, f, 0, 0) < 0
    /\ calculated_area_m2 > 0

\* The area of a ring of fewer than 3 vertices has been returned.
C11_WitnessShort ==
    apc = "returned" /\ Len(coords) = 2 /\ coords[1] # coords[2]

\* C12: for a ring of 3 or more vertices the area is that of the reversed
\* ring and of every cyclic shift of the ring, whatever the function f in
\* the per-edge term (lon2 - lon1) * (2 + f(lat1) + f(lat2)).
C12_Invariance ==
    (apc = "returned" /\ Len(coords) >= 3) =>
        /\ calculated_area_m2 = calculate_polygon_area(Reversed(coords), f)
        /\ \A k \in 1..(Len(coords) - 1) :
               calculated_area_m2 = calculate_polygon_area(Shifted(coords, k), f)

\* A ring of positive area, with a table other than the sine, whose reversal
\* and whose first shift are other sequences than the ring.
C12_Witness ==
    /\ apc = "returned"
    /\ Len(coords) >= 3
    /\ f # TwiceSin
    /\ calculated_area_m2 > 0
    /\ Reversed(coords) # coords
    /\ Shifted(coords, 1) # coords
    /\ Reversed(coords) # Shifted(coords, 1)
\* The days left of a result record: the field of process_crops, and for
\* process_and_sort_crops, which keeps no such field, the value of line 74.
DaysLeftOf(r) ==
    IF pc = "returned9" THEN DatetimeSub(r.ready_date, now).days ELSE r.days_left

\* f"{curr_icon} {curr_stage}" of the stage the record is in at `now`
StageStatus(r) ==
    LET L == Locals(Original(r), ParsePlanted(Original(r)).value, now)
    IN  <<L.curr_icon, " ", L.curr_stage>>

\* Every status a stage of the catalog, or "Ready", can give
StageStatuses ==
    UNION { { <<CROP_STAGES[c].stages[k].icon, " ", CROP_STAGES[c].stages[k].name>> :
                  k \in 1..Len(CROP_STAGES[c].stages) } : c \in DOMAIN CROP_STAGES }
    \cup {<<"WHITE HEAVY CHECK MARK", " ", "Ready">>}

\* is_harvested and overdue_label of a result record against its days left
HarvestLabel(r) ==
    /\ r.is_harvested <=> DaysLeftOf(r) < 0
    /\ r.status = <<"Harvested">> <=> r.is_harvested
    /\ r.is_harvested => r.overdue_label = <<"Overdue by ">> \o NatStr(-DaysLeftOf(r))
    /\ ~r.is_harvested => r.overdue_label = IntStr(DaysLeftOf(r)) \o <<" days left">>

\* C13 as stated: in every enriched record, of process_crops and of
\* process_and_sort_crops, the status of a record that is not harvested is
\* the current stage's icon followed by its name.
C13_StatusIsStage ==
    pc \in {"returned16", "returned9"} =>
        \A i \in 1..Len(processed) :
            /\ HarvestLabel(processed[i])
            /\ ~processed[i].is_harvested =>
                   IF pc = "returned16" THEN processed[i].status = StageStatus(processed[i])
                   ELSE processed[i].status \in StageStatuses

\* C13: is_harvested is true exactly when days_left < 0; status is
\* "Harvested" exactly when is_harvested, and otherwise is the current
\* stage's icon followed by its name in process_crops and "Growing" in
\* process_and_sort_crops; overdue_label is "Overdue by N" with
\* N = |days_left| when harvested and "N days left" with N = days_left
\* otherwise.
C13_Status ==
    pc \in {"returned16", "returned9"} =>
        \A i \in 1..Len(processed) :
            /\ HarvestLabel(processed[i])
            /\ ~processed[i].is_harvested =>
                   IF pc = "returned16" THEN processed[i].status = StageStatus(processed[i])
                   ELSE processed[i].status = <<"Growing">>

\* process_crops has returned a harvested record, overdue by more than a
\* day, and a record in one of its stages.
C13_Witness ==
    /\ pc = "returned16"
    /\ \E i, j \in 1..Len(processed) :
           /\ processed[i].is_harvested /\ processed[i].days_left < -1
           /\ ~processed[j].is_harvested /\ processed[j].days_left > 0
           /\ processed[j].status # <<"WHITE HEAVY CHECK MARK", " ", "Ready">>

\* process_and_sort_crops has returned a harvested and a growing record.
C13_Witness9 ==
    /\ pc = "returned9"
    /\ \E i, j \in 1..Len(processed) :
           /\ processed[i].is_harvested /\ DaysLeftOf(processed[i]) < -1
           /\ ~processed[j].is_harvested
\* The place of a stage name in a stage list; "Ready" comes after the last.
StageIndex(stages, stage) ==
    IF \E k \in 1..Len(stages) : stages[k].name = stage
    THEN CHOOSE k \in 1..Len(stages) : stages[k].name = stage
    ELSE Len(stages) + 1

\* The place of the current stage of a record processed at clock c
StageAt(item, c) ==
    StageIndex(Config(item.name).stages,
               Locals(item, ParsePlanted(item).value, NowAt(c)).curr_stage)

\* C14: for each of the four species of CROP_STAGES the stage durations sum
\* to totalDuration; and for a record whose planting date is not after the
\* reference instant, the place of the current stage in the species' stage
\* list never decreases as the reference instant advances, "Ready" being the
\* place after the last stage.
C14_StageOrder ==
    /\ [](\A c \in DOMAIN CROP_STAGES :
              SumDays(CROP_STAGES[c].stages, Len(CROP_STAGES[c].stages))
                  = CROP_STAGES[c].totalDuration)
    /\ [][utc' > utc =>
              \A i \in 1..Len(data) :
                  (~ParsePlanted(data[i]).raised /\ DaysPassed(data[i], NowAt(utc)) >= 0) =>
                      StageAt(data[i], utc) <= StageAt(data[i], utc')]_vars

\* process_crops returns a record in its second stage that was in its first
\* stage at the start of the clock, and a record that is past its last stage.
C14_Witness ==
    /\ pc = "returned16"
    /\ \E i, j \in 1..Len(data) :
           /\ DaysPassed(data[i], NowAt(0)) >= 0
           /\ StageAt(data[i], 0) = 1
           /\ StageAt(data[i], utc) = 2
           /\ processed[i].status =
                  <<Config(data[i].name).stages[2].icon, " ", Config(data[i].name).stages[2].name>>
           /\ Config(data[j].name).stages # <<>>
           /\ StageAt(data[j], 0) = Len(Config(data[j].name).stages)
           /\ StageAt(data[j], utc) = Len(Config(data[j].name).stages) + 1
\* C15: a run is past the gate, where it reads, initialises and modifies
\* crop_db and renders the page, only if password_correct was True at its
\* gate; crop_db changes only in such a run; and from a click on Logout
\* until a password equal to the secret is submitted no run is past the gate.
C15_Gate ==
    /\ [](rpc \in PastGate => gate_saw = "True")
    /\ [](locked => rpc \notin PastGate)
    /\ [][(("crop_db" \in DOMAIN session_state) # ("crop_db" \in DOMAIN session_state')
            \/ (/\ "crop_db" \in DOMAIN session_state
                /\ "crop_db" \in DOMAIN session_state'
                /\ session_state["crop_db"] # session_state'["crop_db"]))
              => (rpc \in PastGate /\ gate_saw = "True")]_vars

\* After a Logout a run has stopped at the gate on password_correct = False,
\* with the inventory the session had changed before.
C15_Witness ==
    /\ locked
    /\ rpc = "stopped"
    /\ gate_saw = "False"
    /\ "crop_db" \in DOMAIN session_state
    /\ session_state["crop_db"] = MaxDb

\* A run has rendered the page of a session whose inventory Save All Changes
\* has emptied.
C15_WitnessAgain ==
    /\ ~locked
    /\ rpc = "done"
    /\ "crop_db" \in DOMAIN session_state
    /\ session_state["crop_db"] = 0
====
